---- MODULE Spec2Model ----
(***************************************************************************)
(* pkit.pRequest (src/pkit.js): one buffered HTTP request per call,        *)
(* completed through a when.js deferred.                                   *)
(*                                                                         *)
(* Texts that the code inspects or converts (URLs, bodies, header values,  *)
(* JSON) are sequences of one-character strings, so that slice, parse and  *)
(* stringify are computed character by character.  Field names, header     *)
(* names and error codes are only compared, and are plain strings.         *)
(***************************************************************************)
EXTENDS Integers, Sequences, FiniteSets, TLC

(***************************************************************************)
(* JavaScript values.                                                      *)
(***************************************************************************)
Undef == [t |-> "undefined"]
Null == [t |-> "null"]
Num(n) == [t |-> "number", v |-> n]
Bool(b) == [t |-> "boolean", v |-> b]
Str(s) == [t |-> "string", v |-> s]
Arr(xs) == [t |-> "array", v |-> xs]
Obj(ps) == [t |-> "object", v |-> ps]
Ref(id) == [t |-> "ref", id |-> id]

\* The typeof operator, as used at src/pkit.js:52,53,55,61,66.
TypeOf(x) ==
  CASE x.t = "undefined" -> "undefined"
    [] x.t = "number" -> "number"
    [] x.t = "boolean" -> "boolean"
    [] x.t = "string" -> "string"
    [] OTHER -> "object"

Min(a, b) == IF a < b THEN a ELSE b

\* String.prototype.slice(from, to) for 0 <= from <= to.
Slice(s, from, to) == SubSeq(s, from + 1, Min(to, Len(s)))

(***************************************************************************)
(* JSON.parse.  A recursive-descent parser of the JSON grammar over        *)
(* integers, strings (escapes \" \\ \/ \n \t \r \f), true, false, null,    *)
(* arrays and objects.  A result is [ok, v, i]: whether a value was read,  *)
(* the value, and the position after it.                                   *)
(***************************************************************************)
Digits == {"0", "1", "2", "3", "4", "5", "6", "7", "8", "9"}

DigitVal(c) ==
  CASE c = "0" -> 0 [] c = "1" -> 1 [] c = "2" -> 2 [] c = "3" -> 3
    [] c = "4" -> 4 [] c = "5" -> 5 [] c = "6" -> 6 [] c = "7" -> 7
    [] c = "8" -> 8 [] c = "9" -> 9

Whitespace == {" ", "\n", "\t", "\r"}

ControlChars == {"\n", "\t", "\r", "\f"}

Fail(i) == [ok |-> FALSE, v |-> Undef, i |-> i]

Done(v, i) == [ok |-> TRUE, v |-> v, i |-> i]

At(s, i) == IF i >= 1 /\ i <= Len(s) THEN s[i] ELSE "EOF"

RECURSIVE SkipWs(_, _)
SkipWs(s, i) == IF At(s, i) \in Whitespace THEN SkipWs(s, i + 1) ELSE i

IsLit(s, i, lit) ==
  /\ i + Len(lit) - 1 <= Len(s)
  /\ SubSeq(s, i, i + Len(lit) - 1) = lit

RECURSIVE ParseDigits(_, _, _)
ParseDigits(s, i, acc) ==
  IF At(s, i) \in Digits
    THEN ParseDigits(s, i + 1, acc * 10 + DigitVal(s[i]))
    ELSE Done(acc, i)

ParseNumber(s, i) ==
  LET neg == At(s, i) = "-"
      j == IF neg THEN i + 1 ELSE i
  IN  IF At(s, j) \notin Digits THEN Fail(i)
      ELSE LET r == IF s[j] = "0" THEN Done(0, j + 1) ELSE ParseDigits(s, j, 0)
           IN  Done(Num(IF neg THEN 0 - r.v ELSE r.v), r.i)

Unescape(c) ==
  CASE c = "n" -> "\n" [] c = "t" -> "\t" [] c = "r" -> "\r" [] c = "f" -> "\f"
    [] OTHER -> c

RECURSIVE ParseChars(_, _, _)
ParseChars(s, i, acc) ==
  LET c == At(s, i)
  IN  CASE c = "EOF" -> Fail(i)
        [] c = "\"" -> Done(acc, i + 1)
        [] c \in ControlChars -> Fail(i)
        [] c = "\\" ->
             IF At(s, i + 1) \in {"\"", "\\", "/", "n", "t", "r", "f"}
               THEN ParseChars(s, i + 2, Append(acc, Unescape(s[i + 1])))
               ELSE Fail(i)
        [] OTHER -> ParseChars(s, i + 1, Append(acc, c))

ParseString(s, i) ==
  IF At(s, i) = "\"" THEN ParseChars(s, i + 1, <<>>) ELSE Fail(i)

\* Property assignment on the object under construction: a repeated key
\* keeps its place and takes the later value.
RECURSIVE PutKey(_, _, _)
PutKey(ps, k, v) ==
  IF ps = <<>> THEN <<(<<k, v>>)>>
  ELSE IF Head(ps)[1] = k THEN <<(<<k, v>>)>> \o Tail(ps)
  ELSE <<Head(ps)>> \o PutKey(Tail(ps), k, v)

RECURSIVE ParseValue(_, _)
RECURSIVE ParseElements(_, _, _)
RECURSIVE ParseMembers(_, _, _)

\* After "[" or ",": value ws ("," ws ... | "]").
ParseElements(s, i, acc) ==
  LET r == ParseValue(s, i)
  IN  IF ~r.ok THEN Fail(i)
      ELSE LET j == SkipWs(s, r.i)
               xs == Append(acc, r.v)
           IN  CASE At(s, j) = "," -> ParseElements(s, SkipWs(s, j + 1), xs)
                 [] At(s, j) = "]" -> Done(Arr(xs), j + 1)
                 [] OTHER -> Fail(j)

\* After "{" or ",": string ws ":" ws value ws ("," ws ... | "}").
ParseMembers(s, i, acc) ==
  LET k == ParseString(s, i)
  IN  IF ~k.ok THEN Fail(i)
      ELSE LET c == SkipWs(s, k.i)
           IN  IF At(s, c) # ":" THEN Fail(c)
               ELSE LET r == ParseValue(s, SkipWs(s, c + 1))
                    IN  IF ~r.ok THEN Fail(c)
                        ELSE LET j == SkipWs(s, r.i)
                                 ps == PutKey(acc, k.v, r.v)
                             IN  CASE At(s, j) = "," ->
                                        ParseMembers(s, SkipWs(s, j + 1), ps)
                                   [] At(s, j) = "}" -> Done(Obj(ps), j + 1)
                                   [] OTHER -> Fail(j)

ParseValue(s, i) ==
  LET c == At(s, i)
  IN  CASE c = "{" ->
             LET j == SkipWs(s, i + 1)
             IN  IF At(s, j) = "}" THEN Done(Obj(<<>>), j + 1)
                 ELSE ParseMembers(s, j, <<>>)
        [] c = "[" ->
             LET j == SkipWs(s, i + 1)
             IN  IF At(s, j) = "]" THEN Done(Arr(<<>>), j + 1)
                 ELSE ParseElements(s, j, <<>>)
        [] c = "\"" ->
             LET r == ParseString(s, i)
             IN  IF r.ok THEN Done(Str(r.v), r.i) ELSE Fail(i)
        [] c = "-" \/ c \in Digits -> ParseNumber(s, i)
        [] IsLit(s, i, <<"t", "r", "u", "e">>) -> Done(Bool(TRUE), i + 4)
        [] IsLit(s, i, <<"f", "a", "l", "s", "e">>) -> Done(Bool(FALSE), i + 5)
        [] IsLit(s, i, <<"n", "u", "l", "l">>) -> Done(Null, i + 4)
        [] OTHER -> Fail(i)

\* JSON.parse(text): [ok |-> TRUE, v |-> value], or ok = FALSE where
\* JSON.parse throws a SyntaxError.
JsonParse(text) ==
  LET r == ParseValue(text, SkipWs(text, 1))
  IN  IF r.ok /\ SkipWs(text, r.i) = Len(text) + 1
        THEN [ok |-> TRUE, v |-> r.v]
        ELSE [ok |-> FALSE, v |-> Undef]

(***************************************************************************)
(* JSON.stringify, for the values JsonParse produces.                      *)
(***************************************************************************)
DigitChar(d) ==
  CASE d = 0 -> "0" [] d = 1 -> "1" [] d = 2 -> "2" [] d = 3 -> "3"
    [] d = 4 -> "4" [] d = 5 -> "5" [] d = 6 -> "6" [] d = 7 -> "7"
    [] d = 8 -> "8" [] d = 9 -> "9"

RECURSIVE NatToChars(_)
NatToChars(n) ==
  IF n < 10 THEN <<DigitChar(n)>>
  ELSE Append(NatToChars(n \div 10), DigitChar(n % 10))

IntToChars(n) == IF n < 0 THEN <<"-">> \o NatToChars(0 - n) ELSE NatToChars(n)

EscapeChar(c) ==
  CASE c = "\"" -> <<"\\", "\"">>
    [] c = "\\" -> <<"\\", "\\">>
    [] c = "\n" -> <<"\\", "n">>
    [] c = "\t" -> <<"\\", "t">>
    [] c = "\r" -> <<"\\", "r">>
    [] c = "\f" -> <<"\\", "f">>
    [] OTHER -> <<c>>

RECURSIVE EscapeChars(_)
EscapeChars(s) ==
  IF s = <<>> THEN <<>> ELSE EscapeChar(Head(s)) \o EscapeChars(Tail(s))

Quote(s) == <<"\"">> \o EscapeChars(s) \o <<"\"">>

RECURSIVE JsonStringify(_)
RECURSIVE StringifyElements(_)
RECURSIVE StringifyMembers(_)

StringifyElements(xs) ==
  IF xs = <<>> THEN <<>>
  ELSE JsonStringify(Head(xs))
         \o (IF Len(xs) > 1 THEN <<",">> ELSE <<>>)
         \o StringifyElements(Tail(xs))

StringifyMembers(ps) ==
  IF ps = <<>> THEN <<>>
  ELSE Quote(Head(ps)[1]) \o <<":">> \o JsonStringify(Head(ps)[2])
         \o (IF Len(ps) > 1 THEN <<",">> ELSE <<>>)
         \o StringifyMembers(Tail(ps))

JsonStringify(x) ==
  CASE x.t = "null" -> <<"n", "u", "l", "l">>
    [] x.t = "boolean" ->
         IF x.v THEN <<"t", "r", "u", "e">> ELSE <<"f", "a", "l", "s", "e">>
    [] x.t = "number" -> IntToChars(x.v)
    [] x.t = "string" -> Quote(x.v)
    [] x.t = "array" -> <<"[">> \o StringifyElements(x.v) \o <<"]">>
    [] x.t = "object" -> <<"{">> \o StringifyMembers(x.v) \o <<"}">>

(***************************************************************************)
(* url.parse, for URLs of the form [proto://host[:port]][/path][?query]    *)
(* [#hash] (no auth part, no upper case to fold).  The result holds the    *)
(* own properties of Node's Url object; an absent part is null.            *)
(***************************************************************************)
\* The first position >= i of s holding a character of cs, or Len(s) + 1.
RECURSIVE IndexOfAny(_, _, _)
IndexOfAny(s, cs, i) ==
  IF i > Len(s) THEN Len(s) + 1
  ELSE IF s[i] \in cs THEN i
  ELSE IndexOfAny(s, cs, i + 1)

\* The last position of s holding c, or 0.
RECURSIVE LastIndexOf(_, _, _)
LastIndexOf(s, c, i) ==
  IF i < 1 THEN 0
  ELSE IF s[i] = c THEN i
  ELSE LastIndexOf(s, c, i - 1)

StrOrNull(s) == IF s = <<>> THEN Null ELSE Str(s)

UrlParse(u) ==
  LET colon == IndexOfAny(u, {":", "/", "?", "#"}, 1)
      hasProto == /\ colon <= Len(u)
                  /\ u[colon] = ":"
                  /\ colon > 1
                  /\ IsLit(u, colon + 1, <<"/", "/">>)
      proto == IF hasProto THEN SubSeq(u, 1, colon) ELSE <<>>
      afterSlashes == IF hasProto THEN colon + 3 ELSE 1
      hostEnd == IF hasProto
                   THEN IndexOfAny(u, {"/", "?", "#"}, afterSlashes)
                   ELSE 1
      host == SubSeq(u, afterSlashes, hostEnd - 1)
      portAt == LastIndexOf(host, ":", Len(host))
      port == IF portAt > 0 THEN SubSeq(host, portAt + 1, Len(host)) ELSE <<>>
      hostname == IF portAt > 0 THEN SubSeq(host, 1, portAt - 1) ELSE host
      hashAt == IndexOfAny(u, {"#"}, hostEnd)
      hash == SubSeq(u, hashAt, Len(u))
      queryAt == IndexOfAny(SubSeq(u, 1, hashAt - 1), {"?"}, hostEnd)
      search == SubSeq(u, queryAt, hashAt - 1)
      rawPath == SubSeq(u, hostEnd, queryAt - 1)
      pathname == IF hasProto /\ hostname # <<>> /\ rawPath = <<>>
                    THEN <<"/">> ELSE rawPath
      path == pathname \o search
  IN  [protocol |-> StrOrNull(proto),
       slashes |-> IF hasProto THEN Bool(TRUE) ELSE Null,
       auth |-> Null,
       host |-> IF hasProto THEN Str(host) ELSE Null,
       port |-> StrOrNull(port),
       hostname |-> IF hasProto THEN Str(hostname) ELSE Null,
       hash |-> StrOrNull(hash),
       search |-> StrOrNull(search),
       query |-> IF search # <<>> THEN Str(Tail(search)) ELSE Null,
       pathname |-> StrOrNull(pathname),
       path |-> StrOrNull(path),
       href |-> Str(proto \o (IF hasProto THEN <<"/", "/">> ELSE <<>>)
                      \o host \o pathname \o search \o hash)]

(***************************************************************************)
(* Bounds of the model.                                                    *)
(***************************************************************************)
\* Data events delivered for one response.
MaxChunks == 3

\* 'error' events emitted on one request.
MaxErrors == 1

\* Requests issued by the calls of one sequence of calls.
MaxCalls == 2

(***************************************************************************)
(* Literals of the program.                                                *)
(***************************************************************************)
\* 'application/json' (src/pkit.js:64,65,87)
AppJson ==
  <<"a", "p", "p", "l", "i", "c", "a", "t", "i", "o", "n", "/", "j", "s", "o", "n">>

\* 'Missing URL' (src/pkit.js:58)
MissingUrl == Str(<<"M", "i", "s", "s", "i", "n", "g", " ", "U", "R", "L">>)

\* new Error('Connection closed.') (src/pkit.js:79)
ConnectionClosed ==
  [t |-> "Error",
   message |-> <<"C", "o", "n", "n", "e", "c", "t", "i", "o", "n", " ",
                 "c", "l", "o", "s", "e", "d", ".">>]

\* The TypeError of reading or writing a property of undefined or null.
TypeError == [t |-> "TypeError"]

(***************************************************************************)
(* The caller's world: the objects a caller may pass, by reference.        *)
(***************************************************************************)
UrlA == <<"h", "t", "t", "p", ":", "/", "/", "a", ":", "8", "/", "p", "?", "q">>

UrlB == <<"h", "t", "t", "p", ":", "/", "/", "b">>

BodyObject == Obj(<< <<(<<"a">>), Num(1)>> >>)

BodyArray == Arr(<<Num(-1), Str(<<"x", "\"">>), Null, Bool(TRUE), Obj(<<>>)>>)

CallerHeap ==
  [target |-> UrlParse(UrlB),
   headers |-> ("X-Id" :> Str(<<"7">>)),
   post |-> [url |-> Str(UrlA), method |-> Str(<<"P", "O", "S", "T">>),
             body |-> BodyObject, headers |-> Ref("headers")],
   preparsed |-> [url |-> Ref("target"), body |-> Str(<<"h", "i">>)],
   nourl |-> [method |-> Str(<<"G", "E", "T">>)],
   put |-> [url |-> Str(UrlA), method |-> Str(<<"P", "U", "T">>),
            body |-> BodyArray],
   text |-> [url |-> Str(UrlA), body |-> Str(<<"{", "b", "\"">>),
             headers |-> Ref("headers")],
   nullbody |-> [url |-> Str(UrlB), body |-> Null],
   numbody |-> [url |-> Str(UrlB), body |-> Num(42)],
   boolbody |-> [url |-> Str(UrlB), body |-> Bool(TRUE),
                 headers |-> Ref("headers")],
   nobody |-> [url |-> Str(UrlB), method |-> Str(<<"G", "E", "T">>)],
   pretarget |-> [url |-> Ref("target")],
   prebody |-> [url |-> Ref("target"), body |-> BodyObject]]

\* The arguments a call is made with.
Inputs ==
  {Str(UrlA), Num(42), Bool(FALSE), Undef, Null,
   Ref("post"), Ref("preparsed"), Ref("nourl")}

\* The arguments of the calls of a sequence of calls.
CallInputs ==
  {Str(UrlA), Str(UrlB), Num(42), Null,
   Ref("post"), Ref("preparsed"), Ref("nourl"), Ref("put"), Ref("text"),
   Ref("nullbody"), Ref("numbody"), Ref("boolbody"), Ref("nobody"),
   Ref("pretarget"), Ref("prebody")}

(***************************************************************************)
(* The transport's side: what a response may carry.                        *)
(***************************************************************************)
StatusCodes == {200, 404}

TextPlain == <<"t", "e", "x", "t", "/", "p", "l", "a", "i", "n">>

ResponseHeaders ==
  {("server" :> <<"x">>),
   ("content-type" :> AppJson),
   ("content-type" :> AppJson \o <<";", " ", "c", "h", "a", "r", "s", "e", "t",
                                   "=", "u", "t", "f", "-", "8">>),
   ("content-type" :> TextPlain),
   ("content-type" :> AppJson \o <<"x">>),
   ("content-type" :> <<"A", "p", "p", "l", "i", "c", "a", "t", "i", "o", "n",
                        "/", "J", "S", "O", "N">>)}

Chunks ==
  {<<"{", "\"", "a", "\"", ":">>, <<"1", "}">>, <<"[", "1", ",", "2", "]">>,
   <<"{", "b", "a", "d">>}

ErrorCodes == {"ECONNRESET", "EPIPE"}

TransportError(code) == [t |-> "Error", code |-> code]

(***************************************************************************)
(* State.                                                                  *)
(***************************************************************************)
VARIABLES
  heap,       \* the caller's objects: id -> (field -> value)
  input,      \* the argument of the call
  pc,         \* "idle", "called" (returned or threw without a request),
              \* "requested" (request issued), "response" (response received)
  returned,   \* what pRequest returned to its caller, or that it threw
  deferred,   \* the when.defer() of the call
  requests,   \* the requests handed to http.request, with the body written
  response,   \* the response object: statusCode, headers, body
  buf,        \* the accumulated text
  received,   \* the chunks of the data events delivered, in order
  nChunks,    \* data events delivered
  errors,     \* the errors of the 'error' events delivered, in order
  ended,      \* the response's 'end' handler has run
  closed,     \* the response's 'close' handler has run
  thrown      \* exceptions thrown out of an event handler

vars ==
  <<heap, input, pc, returned, deferred, requests, response, buf, received,
    nChunks, errors, ended, closed, thrown>>

(***************************************************************************)
(* when.js deferreds: a deferred is settled by the first resolve or        *)
(* reject; later ones do nothing.                                          *)
(***************************************************************************)
Pending == [state |-> "pending", value |-> Undef]

DeferredResolve(d, v) ==
  IF d.state = "pending" THEN [state |-> "resolved", value |-> v] ELSE d

\* A reject that overwrites an outcome already fixed.
DeferredRejectOverwrite(d, e) == [state |-> "rejected", value |-> e]

DeferredReject(d, e) ==
  IF d.state = "pending" THEN [state |-> "rejected", value |-> e] ELSE d

\* The promise the caller holds: deferred.promise (src/pkit.js:105), or the
\* promise of when.reject (src/pkit.js:58); pending while there is none.
Handle ==
  CASE returned.kind = "promise" -> deferred
    [] returned.kind = "rejected" -> [state |-> "rejected", value |-> returned.value]
    [] OTHER -> Pending

(***************************************************************************)
(* pRequest(options): src/pkit.js:48-106.                                  *)
(***************************************************************************)
\* The value of input before the call.
NoInput == [t |-> "none"]

\* obj[f], undefined when obj has no property f.
Get(obj, f) == IF f \in DOMAIN obj THEN obj[f] ELSE Undef

\* util._extend(origin, add): every property of add is assigned to origin.
Extend(origin, add) == add @@ origin

\* Lines 52-59 without the final else: an argument that is neither an object
\* nor a string leaves requestOptions as the empty object of line 50.
ResolveOptionsNoElse(h, options) ==
  IF TypeOf(options) = "object" THEN
    CASE options.t = "null" -> [kind |-> "throw", heap |-> h, ro |-> ""]
      [] options.t = "ref" ->
           LET o == h[options.id]
               u == Get(o, "url")
           IN  CASE TypeOf(u) = "string" ->
                      [kind |-> "ok",
                       heap |-> ("requestOptions" :> Extend(UrlParse(u.v), o)) @@ h,
                       ro |-> "requestOptions"]
                 [] u.t = "ref" ->
                      [kind |-> "ok",
                       heap |-> [h EXCEPT ![u.id] = Extend(h[u.id], o)],
                       ro |-> u.id]
                 [] u.t \in {"undefined", "null"} ->
                      [kind |-> "throw", heap |-> h, ro |-> ""]
  ELSE IF TypeOf(options) = "string" THEN
    [kind |-> "ok",
     heap |-> ("requestOptions" :> UrlParse(options.v)) @@ h,
     ro |-> "requestOptions"]
  ELSE [kind |-> "ok", heap |-> ("requestOptions" :> <<>>) @@ h,
        ro |-> "requestOptions"]

\* Lines 52-59 with a string argument stored as the url property, unparsed.
ResolveOptionsUnparsed(h, options) ==
  IF TypeOf(options) = "object" THEN
    CASE options.t = "null" -> [kind |-> "throw", heap |-> h, ro |-> ""]
      [] options.t = "ref" ->
           LET o == h[options.id]
               u == Get(o, "url")
           IN  CASE TypeOf(u) = "string" ->
                      [kind |-> "ok",
                       heap |-> ("requestOptions" :> Extend(UrlParse(u.v), o)) @@ h,
                       ro |-> "requestOptions"]
                 [] u.t = "ref" ->
                      [kind |-> "ok",
                       heap |-> [h EXCEPT ![u.id] = Extend(h[u.id], o)],
                       ro |-> u.id]
                 [] u.t \in {"undefined", "null"} ->
                      [kind |-> "throw", heap |-> h, ro |-> ""]
  ELSE IF TypeOf(options) = "string" THEN
    [kind |-> "ok",
     heap |-> ("requestOptions" :> ("url" :> options)) @@ h,
     ro |-> "requestOptions"]
  ELSE [kind |-> "missing", heap |-> h, ro |-> ""]

\* Lines 52-59: the object requestOptions names, in a heap h that also holds
\* the call's own objects.  kind is "ok" (ro is the object's id), "throw"
\* (a TypeError escapes pRequest) or "missing".
ResolveOptions(h, options) ==
  IF TypeOf(options) = "object" THEN
    CASE options.t = "null" -> [kind |-> "throw", heap |-> h, ro |-> ""]
      [] options.t = "ref" ->
           LET o == h[options.id]
               u == Get(o, "url")
           IN  CASE TypeOf(u) = "string" ->
                      [kind |-> "ok",
                       heap |-> ("requestOptions" :> Extend(UrlParse(u.v), o)) @@ h,
                       ro |-> "requestOptions"]
                 [] u.t = "ref" ->
                      [kind |-> "ok",
                       heap |-> [h EXCEPT ![u.id] = Extend(h[u.id], o)],
                       ro |-> u.id]
                 [] u.t \in {"undefined", "null"} ->
                      [kind |-> "throw", heap |-> h, ro |-> ""]
  ELSE IF TypeOf(options) = "string" THEN
    [kind |-> "ok",
     heap |-> ("requestOptions" :> UrlParse(options.v)) @@ h,
     ro |-> "requestOptions"]
  ELSE [kind |-> "missing", heap |-> h, ro |-> ""]

\* The objects a call creates for itself: the result of url.parse and the
\* {} of line 63 stored in it.  They are not reachable from the caller's.
PrivateIds == {"requestOptions", "newHeaders"}

\* Line 63: the id of the {} created for requestOptions r.  Stored in a
\* caller's object, the new mapping is from then on one of the caller's.
NewHeadersId(r) ==
  CASE r = "requestOptions" -> "newHeaders"
    [] r = "target" -> "target.headers"

\* Lines 61-68 without line 65: no Accept header.
ApplyBodyNoAccept(h, r) ==
  LET ro == h[r]
      b == Get(ro, "body")
  IN  IF TypeOf(b) = "object" THEN
        LET hv == Get(ro, "headers")
            hid == IF hv.t = "ref" THEN hv.id ELSE NewHeadersId(r)
            h1 == IF hv.t = "ref" THEN h ELSE (NewHeadersId(r) :> <<>>) @@ h
            h2 == [h1 EXCEPT ![r] = ("body" :> Str(JsonStringify(b)))
                                      @@ ("headers" :> Ref(hid)) @@ ro]
        IN  [h2 EXCEPT ![hid] = ("Content-Type" :> Str(AppJson)) @@ h2[hid]]
      ELSE IF TypeOf(b) # "string" THEN
        [h EXCEPT ![r] = [f \in DOMAIN ro \ {"body"} |-> ro[f]]]
      ELSE h

\* Lines 61-68 with a first test that lets strings in: a string body is
\* serialized as JSON too.
ApplyBodyStringAsJson(h, r) ==
  LET ro == h[r]
      b == Get(ro, "body")
  IN  IF TypeOf(b) \in {"object", "string"} THEN
        LET hv == Get(ro, "headers")
            hid == IF hv.t = "ref" THEN hv.id ELSE NewHeadersId(r)
            h1 == IF hv.t = "ref" THEN h ELSE (NewHeadersId(r) :> <<>>) @@ h
            h2 == [h1 EXCEPT ![r] = ("body" :> Str(JsonStringify(b)))
                                      @@ ("headers" :> Ref(hid)) @@ ro]
        IN  [h2 EXCEPT ![hid] = ("Content-Type" :> Str(AppJson))
                                  @@ ("Accept" :> Str(AppJson)) @@ h2[hid]]
      ELSE [h EXCEPT ![r] = [f \in DOMAIN ro \ {"body"} |-> ro[f]]]

\* Lines 61-68: the body of requestOptions (object r of heap h) is
\* serialized, kept or deleted.
ApplyBody(h, r) ==
  LET ro == h[r]
      b == Get(ro, "body")
  IN  IF TypeOf(b) = "object" THEN
        LET hv == Get(ro, "headers")
            hid == IF hv.t = "ref" THEN hv.id ELSE NewHeadersId(r)
            h1 == IF hv.t = "ref" THEN h ELSE (NewHeadersId(r) :> <<>>) @@ h
            h2 == [h1 EXCEPT ![r] = ("body" :> Str(JsonStringify(b)))
                                      @@ ("headers" :> Ref(hid)) @@ ro]
        IN  [h2 EXCEPT ![hid] = ("Content-Type" :> Str(AppJson))
                                  @@ ("Accept" :> Str(AppJson)) @@ h2[hid]]
      ELSE IF TypeOf(b) # "string" THEN
        [h EXCEPT ![r] = [f \in DOMAIN ro \ {"body"} |-> ro[f]]]
      ELSE h

\* Lines 70 and 103: what http.request(requestOptions) is given, with the
\* header mapping it refers to, and the body passed to end().
IssuedRequest(h, r) ==
  LET hv == Get(h[r], "headers")
  IN  [options |-> h[r],
       headers |-> IF hv.t = "ref" THEN h[hv.id] ELSE <<>>,
       body |-> Get(h[r], "body")]

\* Lines 48-106: one execution of pRequest(options), in any state.
Invoke(options) ==
  /\ input' = options
  /\ LET r == ResolveOptions(heap, options)
     IN  CASE r.kind = "missing" ->
                /\ returned' = [kind |-> "rejected", value |-> MissingUrl]
                /\ pc' = "called"
                /\ UNCHANGED <<heap, requests>>
           [] r.kind = "throw" ->
                /\ returned' = [kind |-> "threw", value |-> TypeError]
                /\ pc' = "called"
                /\ UNCHANGED <<heap, requests>>
           [] r.kind = "ok" ->
                LET h == ApplyBody(r.heap, r.ro)
                IN  /\ heap' = [id \in DOMAIN h \ PrivateIds |-> h[id]]
                    /\ requests' = Append(requests, IssuedRequest(h, r.ro))
                    /\ returned' = [kind |-> "promise", value |-> Undef]
                    /\ pc' = "requested"
  /\ deferred' = Pending
  /\ UNCHANGED <<response, buf, received, nChunks, errors, ended, closed,
                 thrown>>

\* The call of the specification Spec: the only call made.
Call(options) ==
  /\ pc = "idle"
  /\ Invoke(options)

\* A call of the specification SpecCalls: one of a sequence of calls.
NextCall(options) ==
  /\ Len(requests) < MaxCalls
  /\ Invoke(options)

(***************************************************************************)
(* The event handlers: src/pkit.js:71-101.                                 *)
(***************************************************************************)
\* An 'error' handler that does not reject.
ReqErrorDropped(code) ==
  /\ pc \in {"requested", "response"}
  /\ Len(errors) < MaxErrors
  /\ errors' = Append(errors, TransportError(code))
  /\ UNCHANGED <<heap, input, pc, returned, deferred, requests, response, buf,
                 received, nChunks, ended, closed, thrown>>

\* Lines 71-73: request.on('error').
ReqError(code) ==
  /\ pc \in {"requested", "response"}
  /\ Len(errors) < MaxErrors
  /\ errors' = Append(errors, TransportError(code))
  /\ deferred' = DeferredReject(deferred, TransportError(code))
  /\ UNCHANGED <<heap, input, pc, returned, requests, response, buf, received,
                 nChunks, ended, closed, thrown>>

\* Lines 74-75: request.on('response').
Response(statusCode, headers) ==
  /\ pc = "requested"
  /\ pc' = "response"
  /\ response' = [statusCode |-> statusCode, headers |-> headers, body |-> Undef]
  /\ buf' = <<>>
  /\ received' = <<>>
  /\ UNCHANGED <<heap, input, returned, deferred, requests, nChunks, errors,
                 ended, closed, thrown>>

\* A 'data' handler that puts the chunk in front of the buffer.
DataPrepend(chunk) ==
  /\ pc = "response"
  /\ ~ended
  /\ nChunks < MaxChunks
  /\ nChunks' = nChunks + 1
  /\ buf' = chunk \o buf
  /\ received' = Append(received, chunk)
  /\ UNCHANGED <<heap, input, pc, returned, deferred, requests, response, errors,
                 ended, closed, thrown>>

\* Lines 81-83: response.on('data').
Data(chunk) ==
  /\ pc = "response"
  /\ ~ended
  /\ nChunks < MaxChunks
  /\ nChunks' = nChunks + 1
  /\ buf' = buf \o chunk
  /\ received' = Append(received, chunk)
  /\ UNCHANGED <<heap, input, pc, returned, deferred, requests, response, errors,
                 ended, closed, thrown>>

\* A 'close' handler that does not reject.
CloseDropped ==
  /\ pc = "response"
  /\ ~closed
  /\ closed' = TRUE
  /\ UNCHANGED <<heap, input, pc, returned, deferred, requests, response, buf,
                 received, nChunks, errors, ended, thrown>>

\* Lines 78-80: response.on('close').
Close ==
  /\ pc = "response"
  /\ ~closed
  /\ closed' = TRUE
  /\ deferred' = DeferredReject(deferred, ConnectionClosed)
  /\ UNCHANGED <<heap, input, pc, returned, requests, response, buf, received,
                 nChunks, errors, ended, thrown>>

\* The test of line 87 made without regard to case.
LowerCase(c) ==
  CASE c = "A" -> "a" [] c = "J" -> "j" [] c = "S" -> "s" [] c = "O" -> "o"
    [] c = "N" -> "n" [] OTHER -> c

IsJsonIgnoreCase(contentType) ==
  LET head == Slice(contentType, 0, 16)
  IN  [i \in 1..Len(head) |-> LowerCase(head[i])] = AppJson

\* The test of line 87 inverted.
IsJsonInverted(contentType) == Slice(contentType, 0, 16) # AppJson

\* Line 87: the test on the content-type header; its value must be there.
IsJson(contentType) == Slice(contentType, 0, 16) = AppJson

\* Lines 96-100: the value the deferred is resolved with.
Result(resp) ==
  [statusCode |-> resp.statusCode, headers |-> resp.headers, body |-> resp.body]

\* Lines 90-92: the SyntaxError of JSON.parse, with e.response = response.
ParseError(resp) == [t |-> "SyntaxError", response |-> resp]

\* An 'end' handler with the resolve of lines 96-100 placed before the
\* parse: on a malformed body the resolve comes first and the reject of the
\* catch block is the later attempt.
EndHandlerResolveFirst(d, resp, b) ==
  LET r1 == [resp EXCEPT !.body = Str(b)]
  IN  IF "content-type" \notin DOMAIN resp.headers THEN
        [deferred |-> d, response |-> r1, thrown |-> <<TypeError>>]
      ELSE IF IsJson(resp.headers["content-type"]) THEN
        LET p == JsonParse(b)
        IN  IF p.ok THEN
              LET r2 == [r1 EXCEPT !.body = p.v]
              IN  [deferred |-> DeferredResolve(d, Result(r2)),
                   response |-> r2, thrown |-> <<>>]
            ELSE
              [deferred |-> DeferredReject(DeferredResolve(d, Result(r1)),
                                           ParseError(r1)),
               response |-> r1, thrown |-> <<>>]
      ELSE
        [deferred |-> DeferredResolve(d, Result(r1)),
         response |-> r1, thrown |-> <<>>]

\* An 'end' handler whose catch block does not reject: a malformed body is
\* delivered as text.
EndHandlerNoReject(d, resp, b) ==
  LET r1 == [resp EXCEPT !.body = Str(b)]
  IN  IF "content-type" \notin DOMAIN resp.headers THEN
        [deferred |-> d, response |-> r1, thrown |-> <<TypeError>>]
      ELSE IF IsJson(resp.headers["content-type"]) THEN
        LET p == JsonParse(b)
        IN  IF p.ok THEN
              LET r2 == [r1 EXCEPT !.body = p.v]
              IN  [deferred |-> DeferredResolve(d, Result(r2)),
                   response |-> r2, thrown |-> <<>>]
            ELSE
              [deferred |-> DeferredResolve(d, Result(r1)),
               response |-> r1, thrown |-> <<>>]
      ELSE
        [deferred |-> DeferredResolve(d, Result(r1)),
         response |-> r1, thrown |-> <<>>]

\* An 'end' handler that parses but does not assign the parsed value to
\* response.body.
EndHandlerRawBody(d, resp, b) ==
  LET r1 == [resp EXCEPT !.body = Str(b)]
  IN  IF "content-type" \notin DOMAIN resp.headers THEN
        [deferred |-> d, response |-> r1, thrown |-> <<TypeError>>]
      ELSE IF IsJson(resp.headers["content-type"]) THEN
        LET p == JsonParse(b)
        IN  IF p.ok THEN
              [deferred |-> DeferredResolve(d, Result(r1)),
               response |-> r1, thrown |-> <<>>]
            ELSE
              [deferred |-> DeferredResolve(DeferredReject(d, ParseError(r1)),
                                            Result(r1)),
               response |-> r1, thrown |-> <<>>]
      ELSE
        [deferred |-> DeferredResolve(d, Result(r1)),
         response |-> r1, thrown |-> <<>>]

\* Lines 85-100: the 'end' handler on deferred d, response resp and text b.
\* The outcome is the deferred, the response object, and the exception the
\* handler throws, if any.
EndHandler(d, resp, b) ==
  LET r1 == [resp EXCEPT !.body = Str(b)]
  IN  IF "content-type" \notin DOMAIN resp.headers THEN
        [deferred |-> d, response |-> r1, thrown |-> <<TypeError>>]
      ELSE IF IsJson(resp.headers["content-type"]) THEN
        LET p == JsonParse(b)
        IN  IF p.ok THEN
              LET r2 == [r1 EXCEPT !.body = p.v]
              IN  [deferred |-> DeferredResolve(d, Result(r2)),
                   response |-> r2, thrown |-> <<>>]
            ELSE
              [deferred |-> DeferredResolve(DeferredReject(d, ParseError(r1)),
                                            Result(r1)),
               response |-> r1, thrown |-> <<>>]
      ELSE
        [deferred |-> DeferredResolve(d, Result(r1)),
         response |-> r1, thrown |-> <<>>]

\* Lines 84-101: response.on('end').
End ==
  /\ pc = "response"
  /\ ~ended
  /\ ended' = TRUE
  /\ LET out == EndHandler(deferred, response, buf)
     IN  /\ deferred' = out.deferred
         /\ response' = out.response
         /\ thrown' = thrown \o out.thrown
  /\ UNCHANGED <<heap, input, pc, returned, requests, buf, received, nChunks,
                 errors, closed>>

(***************************************************************************)
(* One call and the events of its request.                                 *)
(***************************************************************************)
Init ==
  /\ heap = CallerHeap
  /\ input = NoInput
  /\ pc = "idle"
  /\ returned = [kind |-> "none", value |-> Undef]
  /\ deferred = Pending
  /\ requests = <<>>
  /\ response = [statusCode |-> 0, headers |-> <<>>, body |-> Undef]
  /\ buf = <<>>
  /\ received = <<>>
  /\ nChunks = 0
  /\ errors = <<>>
  /\ ended = FALSE
  /\ closed = FALSE
  /\ thrown = <<>>

Next ==
  \/ \E options \in Inputs : Call(options)
  \/ \E code \in ErrorCodes : ReqError(code)
  \/ \E statusCode \in StatusCodes, headers \in ResponseHeaders :
       Response(statusCode, headers)
  \/ \E chunk \in Chunks : Data(chunk)
  \/ End
  \/ Close

Spec == Init /\ [][Next]_vars

(***************************************************************************)
(* A sequence of calls on the same caller's objects; the transport stays   *)
(* silent.                                                                 *)
(***************************************************************************)
NextCalls == \E options \in CallInputs : NextCall(options)

SpecCalls == Init /\ [][NextCalls]_vars

(***************************************************************************)
(* Properties.                                                             *)
(***************************************************************************)
\* The steps of the three handlers that settle the handle.
ErrorStep == Len(errors') > Len(errors)

CloseStep == closed' /\ ~closed

EndStep == ended' /\ ~ended

HasContentType == "content-type" \in DOMAIN response.headers

\* The response declares JSON: its content-type begins 'application/json'.
DeclaresJson ==
  /\ HasContentType
  /\ Len(response.headers["content-type"]) >= 16
  /\ SubSeq(response.headers["content-type"], 1, 16) = AppJson

Rejected(e) == [state |-> "rejected", value |-> e]

\* C1: the handle is settled at most once, by the first handler that
\* settles it.  Once it is resolved or rejected, no later event (error,
\* response, data, end, close, in any order) changes its outcome or its
\* value.  The handle changes only in the call and in the error, close and
\* end handlers, and only while pending; each of these handlers, run on a
\* pending handle (end: with a content-type to inspect), settles it.  Of the
\* two attempts the end handler makes on a malformed JSON body, the reject
\* comes first and stands, and the resolve that follows does nothing.
C1_SettledOnce ==
  /\ [][Handle.state # "pending" => Handle' = Handle]_vars
  /\ [][Handle' # Handle
          => /\ Handle.state = "pending"
             /\ (pc = "idle" \/ ErrorStep \/ CloseStep \/ EndStep)]_vars
  /\ [][(/\ returned.kind = "promise"
          /\ Handle.state = "pending"
          /\ (ErrorStep \/ CloseStep \/ (EndStep /\ HasContentType)))
          => Handle'.state # "pending"]_vars
  /\ [][(/\ EndStep
          /\ Handle.state = "pending"
          /\ DeclaresJson
          /\ ~JsonParse(buf).ok)
          => /\ Handle'.state = "rejected"
             /\ Handle'.value.t = "SyntaxError"]_vars

\* A handle resolved by 'end', after which 'close' and a request error have
\* both tried to reject it.
C1_Witness ==
  /\ Handle.state = "resolved"
  /\ ended /\ closed /\ errors # <<>>

\* C2: once a terminating event of an issued request has been handled (a
\* request error, or the end or the close of its response), the handle is
\* settled, for every response header set and body.
C2_TerminatedIsSettled ==
  (pc \in {"requested", "response"} /\ (errors # <<>> \/ ended \/ closed))
    => Handle.state # "pending"

\* C3: a close handled before end, on a handle still pending, rejects it
\* with Error('Connection closed.') whatever has been buffered; while close
\* has come and end has not, the handle is rejected; and a handle rejected
\* once close has come is never resolved afterwards, so that the partial
\* buffer is not delivered by a later end.
C3_CloseBeforeEnd ==
  /\ [][(CloseStep /\ ~ended /\ Handle.state = "pending")
          => Handle' = Rejected(ConnectionClosed)]_vars
  /\ [](closed /\ ~ended => Handle.state = "rejected")
  /\ [][(closed /\ Handle.state = "rejected") => Handle'.state = "rejected"]_vars

\* Two chunks were buffered, close came, then end ran on the rejected handle.
C3_Witness ==
  /\ closed /\ ended /\ thrown = <<>>
  /\ nChunks >= 2
  /\ response.body = Str(buf)
  /\ Handle = Rejected(ConnectionClosed)

\* C4: when end is handled for a response declaring JSON whose accumulated
\* text is malformed, the handle is not resolved, then or later; if it was
\* still pending it is rejected with the SyntaxError, whose response
\* property holds the status code, the headers and the raw text as body.
C4_MalformedJsonRejects ==
  /\ [][(EndStep /\ DeclaresJson /\ ~JsonParse(buf).ok /\ Handle.state = "pending")
          => /\ Handle'.state = "rejected"
             /\ Handle'.value.t = "SyntaxError"
             /\ Handle'.value.response.statusCode = response.statusCode
             /\ Handle'.value.response.headers = response.headers
             /\ Handle'.value.response.body = Str(buf)]_vars
  /\ []((ended /\ DeclaresJson /\ ~JsonParse(buf).ok) => Handle.state = "rejected")

\* The text '{bad' under application/json was rejected with the parse error.
C4_Witness ==
  /\ ended
  /\ DeclaresJson
  /\ buf = <<"{", "b", "a", "d">>
  /\ Handle.state = "rejected"
  /\ Handle.value.t = "SyntaxError"
  /\ Handle.value.response.body = Str(<<"{", "b", "a", "d">>)

\* C5: when end has been handled for a response without a content-type
\* header, the handle is rejected.
C5_MissingContentTypeRejects ==
  (ended /\ ~HasContentType) => Handle.state = "rejected"

\* C6: when end is handled, on a handle still pending, for a response
\* declaring JSON whose accumulated text is valid JSON, the handle is
\* resolved with the response's status code and headers and with the parsed
\* value as body, which is not the text.
C6_ValidJsonResolvesParsed ==
  [][(EndStep /\ DeclaresJson /\ JsonParse(buf).ok /\ Handle.state = "pending")
       => /\ Handle'.state = "resolved"
          /\ Handle'.value.statusCode = response.statusCode
          /\ Handle'.value.headers = response.headers
          /\ Handle'.value.body = JsonParse(buf).v
          /\ Handle'.value.body # Str(buf)]_vars

\* The text '{"a":1}', received in two chunks with status 404, was resolved
\* as the object {a: 1}.
C6_Witness ==
  /\ ended
  /\ buf = <<"{", "\"", "a", "\"", ":", "1", "}">>
  /\ Handle.state = "resolved"
  /\ Handle.value.statusCode = 404
  /\ Handle.value.body = Obj(<< <<(<<"a">>), Num(1)>> >>)

\* C7: when end is handled, on a handle still pending, for a response whose
\* content-type does not begin 'application/json', the handle is resolved
\* with the accumulated text itself as body, whether or not that text is
\* JSON.
C7_OtherTypeResolvesText ==
  [][(EndStep /\ HasContentType /\ ~DeclaresJson /\ Handle.state = "pending")
       => /\ Handle'.state = "resolved"
          /\ Handle'.value.statusCode = response.statusCode
          /\ Handle'.value.headers = response.headers
          /\ Handle'.value.body = Str(buf)
          /\ response'.body = Str(buf)]_vars

\* The JSON text '[1,2]' under text/plain was delivered as text.
C7_Witness ==
  /\ ended
  /\ HasContentType
  /\ response.headers["content-type"] = TextPlain
  /\ Handle.state = "resolved"
  /\ Handle.value.body = Str(<<"[", "1", ",", "2", "]">>)

\* C8: a request error handled while the handle is pending, before or after
\* the response, rejects it with that very error, and no later event
\* changes the rejection.
C8_TransportErrorRejects ==
  /\ [][(ErrorStep /\ Handle.state = "pending")
          => Handle' = Rejected(errors'[Len(errors')])]_vars
  /\ [][(errors # <<>> /\ Handle = Rejected(errors[1])) => Handle' = Handle]_vars

\* An error rejected the handle during the exchange; data, end and close
\* followed and left it.
C8_Witness ==
  /\ errors # <<>>
  /\ Handle = Rejected(errors[1])
  /\ nChunks >= 1 /\ ended /\ closed

\* C9: a call with an argument that is neither a string nor an object (42,
\* false, undefined) returns a promise already rejected with 'Missing URL'
\* and issues no request.
C9_MissingUrl ==
  (pc # "idle" /\ input \in {Num(42), Bool(FALSE), Undef})
    => /\ returned.kind = "rejected"
       /\ Handle = Rejected(MissingUrl)
       /\ requests = <<>>
       /\ pc = "called"

\* pRequest(42) has returned.
C9_Witness ==
  /\ pc = "called"
  /\ input = Num(42)
  /\ Handle = Rejected(MissingUrl)

\* C10: a call with null returns a promise already rejected with
\* 'Missing URL' and issues no request, as a call with 42 does.
C10_NullMissingUrl ==
  (pc # "idle" /\ input = Null)
    => /\ returned.kind = "rejected"
       /\ Handle = Rejected(MissingUrl)
       /\ requests = <<>>

\* The request of the latest call that issued one.
Issued == requests[Len(requests)]

\* A step in which pRequest(options) issues a request, options being the
\* caller's object o.
IssueStep(o) == input' = Ref(o) /\ Len(requests') = Len(requests) + 1

\* The header mapping the caller's object o supplies, as it is now: that of
\* its headers property, else that of its pre-parsed target; empty if none.
SuppliedHeaders(o) ==
  LET u == Get(heap[o], "url")
      hv == IF "headers" \in DOMAIN heap[o] THEN heap[o].headers
            ELSE IF u.t = "ref" THEN Get(heap[u.id], "headers")
            ELSE Undef
  IN  IF hv.t = "ref" THEN heap[hv.id] ELSE <<>>

JsonHeaders ==
  ("Content-Type" :> Str(AppJson)) @@ ("Accept" :> Str(AppJson))

\* C11: a call whose input has an object or array as body writes the JSON
\* serialization of that value (a text that parses back to the value) and
\* sends Content-Type and Accept: application/json along with the headers
\* supplied, in a mapping created when none was supplied.
C11_ObjectBodySerialized ==
  [][\A o \in DOMAIN heap :
       (/\ IssueStep(o)
        /\ "body" \in DOMAIN heap[o]
        /\ heap[o].body.t \in {"array", "object"})
         => /\ Issued'.body = Str(JsonStringify(heap[o].body))
            /\ Issued'.options.body = Issued'.body
            /\ JsonParse(Issued'.body.v) = [ok |-> TRUE, v |-> heap[o].body]
            /\ Issued'.options.headers.t = "ref"
            /\ Issued'.headers = JsonHeaders @@ SuppliedHeaders(o)]_vars

\* The array body of the input without headers was written as
\* [-1,"x\"",null,true,{}] under the two headers alone.
C11_Witness ==
  /\ input = Ref("put")
  /\ returned.kind = "promise"
  /\ Issued.body = Str(<<"[", "-", "1", ",", "\"", "x", "\\", "\"", "\"", ",",
                         "n", "u", "l", "l", ",", "t", "r", "u", "e", ",",
                         "{", "}", "]">>)
  /\ DOMAIN Issued.headers = {"Content-Type", "Accept"}
  /\ Issued.headers["Accept"] = Str(AppJson)

\* C12: a call whose input has no body, or null, a number or a boolean as
\* body, passes no body to the transport, has no body property in the
\* request options, and sends the supplied headers without Content-Type or
\* Accept added.
C12_OtherBodyDropped ==
  [][\A o \in DOMAIN heap :
       (/\ IssueStep(o)
        /\ Get(heap[o], "body").t \in {"undefined", "null", "number", "boolean"})
         => /\ Issued'.body = Undef
            /\ "body" \notin DOMAIN Issued'.options
            /\ Issued'.headers = SuppliedHeaders(o)]_vars

\* C13: a call whose input has a string as body writes that very string and
\* sends the supplied headers as they were, the mapping itself untouched.
C13_StringBodyKept ==
  [][\A o \in DOMAIN heap :
       (/\ IssueStep(o)
        /\ Get(heap[o], "body").t = "string")
         => /\ Issued'.body = heap[o].body
            /\ Issued'.headers = SuppliedHeaders(o)
            /\ SuppliedHeaders(o)' = SuppliedHeaders(o)]_vars

\* The string {b" was written as it is, with the caller's one header.
C13_Witness ==
  /\ input = Ref("text")
  /\ returned.kind = "promise"
  /\ Issued.body = Str(<<"{", "b", "\"">>)
  /\ DOMAIN Issued.headers = {"X-Id"}

\* A step that is a call of pRequest with argument x: no event handler runs.
CallStep(x) ==
  /\ input' = x
  /\ UNCHANGED <<response, nChunks, errors, ended, closed>>
  /\ pc' \in {"called", "requested"}

\* The request pRequest issues for the argument x when x is the first
\* argument ever passed: on the caller's objects as they were made.
FirstRequest(x) ==
  LET r == ResolveOptions(CallerHeap, x)
  IN  IssuedRequest(ApplyBody(r.heap, r.ro), r.ro)

\* C14: the request a call issues (target, method, body, headers) is the one
\* its input gives when passed to a first call, whatever calls came before,
\* also calls given the same pre-parsed target or the same header mapping.
C14_RequestFromInputAlone ==
  [][\A x \in CallInputs :
       (CallStep(x) /\ Len(requests') = Len(requests) + 1)
         => Issued' = FirstRequest(x)]_vars

\* C15: a call with a string u issues exactly one request: to the target
\* parsed from u (for 'http://a:8/p?q': host a, port 8, path /p?q), with no
\* method set (so GET), no body and no headers.
C15_StringInputIsGet ==
  [][\A u \in {UrlA, UrlB} :
       CallStep(Str(u))
         => /\ Len(requests') = Len(requests) + 1
            /\ SubSeq(requests', 1, Len(requests)) = requests
            /\ returned'.kind = "promise"
            /\ Issued'.options = UrlParse(u)
            /\ Issued'.options.hostname = Str(<<u[8]>>)
            /\ Issued'.options.port = (IF u = UrlA THEN Str(<<"8">>) ELSE Null)
            /\ Issued'.options.path =
                 (IF u = UrlA THEN Str(<<"/", "p", "?", "q">>) ELSE Str(<<"/">>))
            /\ DOMAIN Issued'.options \cap {"method", "body", "headers"} = {}
            /\ Issued'.body = Undef
            /\ Issued'.headers = <<>>
            /\ heap' = heap]_vars

\* pRequest('http://a:8/p?q') has issued its request.
C15_Witness ==
  /\ input = Str(UrlA)
  /\ returned.kind = "promise"
  /\ Issued.options.hostname = Str(<<"a">>)
  /\ Issued.options.port = Str(<<"8">>)
  /\ Issued.options.path = Str(<<"/", "p", "?", "q">>)
  /\ Issued.body = Undef

RECURSIVE Concat(_)
Concat(cs) == IF cs = <<>> THEN <<>> ELSE Head(cs) \o Concat(Tail(cs))

\* C16: from the response on, and so when end is handled, the buffer is the
\* concatenation of the chunks delivered, in the order of their arrival;
\* it is that text the end handler takes as the raw body.
C16_BufferIsConcatenation ==
  /\ [](pc = "response" => (buf = Concat(received) /\ Len(received) = nChunks))
  /\ [][EndStep => /\ buf = Concat(received)
                   /\ (response'.body = Str(Concat(received))
                         \/ (DeclaresJson /\ JsonParse(buf).ok))]_vars

\* Two different chunks arrived and end was handled.
C16_Witness ==
  /\ ended
  /\ Len(received) = 2
  /\ received[1] # received[2]
  /\ buf = received[1] \o received[2]
  /\ buf # received[2] \o received[1]

\* What end does to a pending handle when it parses, and when it does not.
ParseAttempted ==
  IF JsonParse(buf).ok
    THEN response'.body = JsonParse(buf).v /\ Handle'.state = "resolved"
    ELSE Handle'.state = "rejected" /\ Handle'.value.t = "SyntaxError"

ParseNotAttempted ==
  /\ response'.body = Str(buf)
  /\ Handle'.state = "resolved"
  /\ Handle'.value.body = Str(buf)

ContentType == response.headers["content-type"]

\* C17: end parses the text as JSON exactly when the first 16 characters of
\* the content-type are 'application/json', compared with regard to case:
\* it parses under 'application/json; charset=utf-8', and not under
\* 'Application/JSON' or 'text/plain'.
C17_ParseIffPrefix ==
  [][(EndStep /\ HasContentType /\ Handle.state = "pending")
       => /\ ParseAttempted <=>
               SubSeq(ContentType, 1, Min(16, Len(ContentType))) = AppJson
          /\ ParseNotAttempted <=> ~ParseAttempted
          /\ (Len(ContentType) > 16 /\ SubSeq(ContentType, 1, 16) = AppJson)
               => ParseAttempted
          /\ (ContentType = TextPlain \/ Head(ContentType) = "A")
               => ParseNotAttempted]_vars

\* Under 'application/json; charset=utf-8' the text [1,2] was parsed.
C17_Witness ==
  /\ ended
  /\ HasContentType
  /\ Len(ContentType) = 31
  /\ buf = <<"[", "1", ",", "2", "]">>
  /\ Handle.state = "resolved"
  /\ Handle.value.body = Arr(<<Num(1), Num(2)>>)

\* C18: a call with an object that has no url property returns a rejected
\* promise; it does not throw and issues no request.
C18_NoUrlRejects ==
  (pc # "idle" /\ input.t = "ref" /\ "url" \notin DOMAIN heap[input.id])
    => /\ returned.kind # "threw"
       /\ Handle.state = "rejected"
       /\ requests = <<>>

\* C19: a call leaves every object of the caller as it was: the input, its
\* body, its header mapping and its pre-parsed target.
C19_InputUnmodified ==
  [][\A id \in DOMAIN heap : id \in DOMAIN heap' /\ heap'[id] = heap[id]]_vars

====
